---------------------------- MODULE Spec2Model ----------------------------
(***************************************************************************)
(* fileshare (sjqzhang/fileshare): the HTTP file server's path handling,   *)
(* the client's download-state file and the concurrent directory download. *)
(*                                                                         *)
(* Three specifications share the module:                                  *)
(*   Spec        downloadDirectory with its workers running downloadFile   *)
(*   SpecServer  the /download and /list handlers on one request           *)
(*   SpecLedger  saveDownloadState / loadDownloadState on one file         *)
(***************************************************************************)
EXTENDS Integers, Sequences, FiniteSets, TLC

VARIABLES
    \* ---- server (startServer handlers) ----
    req,            \* the request being served: endpoint and c.Param("path")[1:]
    srvResp,        \* the handler's answer
    \* ---- download-state file (loadDownloadState / saveDownloadState) ----
    resumeFile,     \* content of the file named by resumeFile
    memState,       \* SpecLedger: the DownloadState held in memory
    ledgerPhase,    \* SpecLedger: "init" | "saved" | "loaded"
    savedState,     \* SpecLedger: the DownloadState last handed to save
    ioOk,           \* SpecLedger: whether the last WriteFile / ReadFile succeeded
    \* ---- downloadDirectory (the orchestrating goroutine) ----
    mainPc,         \* "list" | "spawn" | "enqueue" | "close" | "wait" | "done" | "empty" | "failed"
    concurrency,    \* the -c flag
    resultFiles,    \* result.Files: the listing, a sequence of paths
    spawned,        \* i of the loop starting the workers
    enqueued,       \* number of files sent on tasks so far
    tasks,          \* the buffered channel's content
    closed,         \* close(tasks) was called
    wg,             \* the WaitGroup's counter
    \* ---- the workers, each inside `for file := range tasks { downloadFile }` ----
    wpc,            \* "unborn" | "range" | "load" | "do" | "hung" | "status" | "mkdir"
                    \*   | "stat" | "create" | "copy" | "save" | "write" | "exited"
    filePath,       \* downloadFile's argument (kept after return until the next receive)
    state,          \* downloadFile's local `state`
    resp,           \* the response of client.Do
    written,        \* io.Copy's count
    \* ---- the client's disk ----
    localFiles,     \* size of each file under savePath, -1 if there is none
    localDirs,      \* the directories under savePath that exist
    \* ---- history ----
    outcome,        \* how each worker's last downloadFile call ended
    effects,        \* what each worker's current or last call did to the disk
    invocations,    \* number of downloadFile calls made for each path
    saved,          \* paths whose call wrote the state file without error
    lastSaved,      \* the save whose data the state file holds: the ledger that call
                    \*   loaded, its path, its count and the advertised length
    panicked        \* the process died of a run-time panic

srvVars == <<req, srvResp>>
ledVars == <<memState, ledgerPhase, savedState, ioOk>>
mainVars == <<mainPc, concurrency, resultFiles, spawned, enqueued, tasks, closed, wg>>
workerVars == <<wpc, filePath, state, resp, written>>
diskVars == <<localFiles, localDirs>>
histVars == <<outcome, effects, invocations, saved, lastSaved, panicked>>
batchVars == <<mainVars, workerVars, diskVars, histVars>>
vars == <<srvVars, resumeFile, ledVars, batchVars>>

(***************************************************************************)
(* Bounds                                                                  *)
(***************************************************************************)
MaxReqLen == 5
MaxSize == 1        \* file sizes and byte counts range over 0..MaxSize
MaxWorkers == 2     \* the -c flag ranges over 0..MaxWorkers
MaxFiles == 2       \* a listing holds 0..MaxFiles files
MaxCalls == 3       \* SpecRepeat: the download command is run up to MaxCalls times

(***************************************************************************)
(* Strings are sequences of one-character strings.                         *)
(***************************************************************************)
IsPrefixOf(p, s) ==
    /\ Len(p) <= Len(s)
    /\ \A i \in 1..Len(p) : s[i] = p[i]

\* strings.HasPrefix(s, prefix)
HasPrefix(s, prefix) == IsPrefixOf(prefix, s)

(***************************************************************************)
(* Server: path resolution (startServer, both handlers)                   *)
(***************************************************************************)

\* The bytes a request path is drawn from.  "%2F" stands for the three bytes
\* of the escape of '/', "%" for a percent sign that starts no valid escape
\* (no other symbol here is a hex digit).
ReqAlphabet == {"x", "y", ".", "/", "%2F", "%"}

RECURSIVE SeqsUpTo(_, _)
SeqsUpTo(S, n) ==
    IF n = 0 THEN {<<>>}
    ELSE LET shorter == SeqsUpTo(S, n - 1)
         IN  shorter \cup {Append(s, c) : s \in {t \in shorter : Len(t) = n - 1}, c \in S}

ReqPaths == SeqsUpTo(ReqAlphabet, MaxReqLen)

\* filepath.Abs(rootPath): the served root, "/r/x".
absPath == <<"/", "r", "/", "x">>

\* url.QueryUnescape: err != nil iff some '%' is not followed by two hex digits.
QueryUnescapeErr(s) == \E i \in 1..Len(s) : s[i] = "%"

\* url.QueryUnescape: the decoded string.
QueryUnescape(s) == [i \in 1..Len(s) |-> IF s[i] = "%2F" THEN "/" ELSE s[i]]

\* strings.Split(s, "/"), dropping nothing: the segments between separators.
RECURSIVE SplitPath(_)
SplitPath(s) ==
    IF \A i \in 1..Len(s) : s[i] # "/" THEN <<s>>
    ELSE LET k == CHOOSE i \in 1..Len(s) :
                      s[i] = "/" /\ \A j \in 1..(i - 1) : s[j] # "/"
         IN  <<SubSeq(s, 1, k - 1)>> \o SplitPath(SubSeq(s, k + 1, Len(s)))

\* filepath.Clean on a rooted path, as segments: "" and "." are dropped, ".."
\* removes the segment before it and is itself dropped at the root.
RECURSIVE CleanSegs(_, _)
CleanSegs(segs, acc) ==
    IF segs = <<>> THEN acc
    ELSE LET h == Head(segs)
             t == Tail(segs)
         IN  IF h = <<>> \/ h = <<".">> THEN CleanSegs(t, acc)
             ELSE IF h = <<".", ".">>
                  THEN CleanSegs(t, IF acc = <<>> THEN acc ELSE SubSeq(acc, 1, Len(acc) - 1))
                  ELSE CleanSegs(t, Append(acc, h))

\* The string of a rooted path given as segments: "/" alone for the root.
RECURSIVE PathString(_)
PathString(segs) ==
    IF segs = <<>> THEN <<"/">>
    ELSE IF Len(segs) = 1 THEN <<"/">> \o segs[1]
    ELSE PathString(SubSeq(segs, 1, Len(segs) - 1)) \o <<"/">> \o segs[Len(segs)]

\* filepath.Join(absPath, decodedPath): empty elements are ignored, the rest
\* joined with the separator and cleaned.
Join(base, elem) ==
    LET joined == IF elem = <<>> THEN base ELSE base \o <<"/">> \o elem
    IN  PathString(CleanSegs(SplitPath(joined), <<>>))

\* The handlers' containment test, `strings.HasPrefix(fullPath, absPath)`.
PathAllowed(fullPath) == HasPrefix(fullPath, absPath)

\* Whether fullPath names the root or something below it (segment-wise).
InsideRoot(fullPath) ==
    IsPrefixOf(CleanSegs(SplitPath(absPath), <<>>), CleanSegs(SplitPath(fullPath), <<>>))

(***************************************************************************)
(* Server: the file tree on disk, in filepath.Walk (lexical) order.        *)
(* The root /r/x has two siblings whose names extend its own, the file     *)
(* /r/xy and the directory /r/xx.                                          *)
(***************************************************************************)
ServerDisk ==
    << [name |-> <<"/">>,                                  dir |-> TRUE,  size |-> 0],
       [name |-> <<"/", "r">>,                             dir |-> TRUE,  size |-> 0],
       [name |-> <<"/", "r", "/", "x">>,                   dir |-> TRUE,  size |-> 0],
       [name |-> <<"/", "r", "/", "x", "/", "x">>,         dir |-> FALSE, size |-> 1],
       [name |-> <<"/", "r", "/", "x", "/", "y">>,         dir |-> TRUE,  size |-> 0],
       [name |-> <<"/", "r", "/", "x", "/", "y", "/", "x">>, dir |-> FALSE, size |-> 2],
       [name |-> <<"/", "r", "/", "x", "/", "y", "/", "y">>, dir |-> TRUE,  size |-> 0],
       [name |-> <<"/", "r", "/", "x", "x">>,              dir |-> TRUE,  size |-> 0],
       [name |-> <<"/", "r", "/", "x", "x", "/", "y">>,    dir |-> FALSE, size |-> 1],
       [name |-> <<"/", "r", "/", "x", "y">>,              dir |-> FALSE, size |-> 2],
       [name |-> <<"/", "r", "/", "y">>,                   dir |-> FALSE, size |-> 1] >>

\* os.Stat(fullPath): err == nil iff the path names an entry.
StatExists(fullPath) == \E i \in 1..Len(ServerDisk) : ServerDisk[i].name = fullPath

StatInfo(fullPath) ==
    ServerDisk[CHOOSE i \in 1..Len(ServerDisk) : ServerDisk[i].name = fullPath]

\* filepath.Rel(absPath, path), both clean and rooted: ".." for each segment of
\* the base beyond the common prefix, then the rest of the target; "." if equal.
RECURSIVE CommonLen(_, _)
CommonLen(a, b) ==
    IF a = <<>> \/ b = <<>> \/ Head(a) # Head(b) THEN 0
    ELSE 1 + CommonLen(Tail(a), Tail(b))

RECURSIVE RelString(_)
RelString(segs) ==
    IF segs = <<>> THEN <<".">>
    ELSE IF Len(segs) = 1 THEN segs[1]
    ELSE RelString(SubSeq(segs, 1, Len(segs) - 1)) \o <<"/">> \o segs[Len(segs)]

Rel(base, target) ==
    LET b == CleanSegs(SplitPath(base), <<>>)
        t == CleanSegs(SplitPath(target), <<>>)
        k == CommonLen(b, t)
    IN  RelString([i \in 1..(Len(b) - k) |-> <<".", ".">>] \o SubSeq(t, k + 1, Len(t)))

\* The entries filepath.Walk(fullPath) visits: fullPath itself and all below it.
InSubtree(fullPath, name) ==
    IsPrefixOf(CleanSegs(SplitPath(fullPath), <<>>), CleanSegs(SplitPath(name), <<>>))

\* Mutant: the records' paths are relative to the directory listed.
WalkFilesRelativeToDir(fullPath) ==
    LET visited == SelectSeq(ServerDisk, LAMBDA e : InSubtree(fullPath, e.name) /\ ~e.dir)
    IN  [i \in 1..Len(visited) |->
            [path |-> Rel(fullPath, visited[i].name), size |-> visited[i].size]]

\* The walk callback over the whole subtree: one record per non-directory.
WalkFiles(fullPath) ==
    LET visited == SelectSeq(ServerDisk, LAMBDA e : InSubtree(fullPath, e.name) /\ ~e.dir)
    IN  [i \in 1..Len(visited) |->
            [path |-> Rel(absPath, visited[i].name), size |-> visited[i].size]]

StatusOK == 200
StatusBadRequest == 400
StatusForbidden == 403
StatusNotFound == 404
StatusInternalServerError == 500

NoResp == [status |-> 0, files |-> <<>>, length |-> -1]

\* r.GET("/download/*path", ...)
DownloadHandler(rawPath) ==
    IF QueryUnescapeErr(rawPath)
    THEN [status |-> StatusBadRequest, files |-> <<>>, length |-> -1]
    ELSE LET fullPath == Join(absPath, QueryUnescape(rawPath))
         IN  IF ~PathAllowed(fullPath)
             THEN [status |-> StatusForbidden, files |-> <<>>, length |-> -1]
             ELSE IF ~StatExists(fullPath)
             THEN [status |-> StatusNotFound, files |-> <<>>, length |-> -1]
             ELSE IF StatInfo(fullPath).dir
             THEN [status |-> StatusBadRequest, files |-> <<>>, length |-> -1]
             ELSE [status |-> StatusOK, files |-> <<>>, length |-> StatInfo(fullPath).size]

\* r.GET("/list/*path", ...); walkErr: some step of the walk reports an error.
ListHandler(dirPath, walkErr) ==
    IF QueryUnescapeErr(dirPath)
    THEN [status |-> StatusBadRequest, files |-> <<>>, length |-> -1]
    ELSE LET fullPath == Join(absPath, QueryUnescape(dirPath))
         IN  IF ~PathAllowed(fullPath)
             THEN [status |-> StatusForbidden, files |-> <<>>, length |-> -1]
             ELSE IF ~StatExists(fullPath)
             THEN [status |-> StatusNotFound, files |-> <<>>, length |-> -1]
             ELSE IF ~StatInfo(fullPath).dir
             THEN [status |-> StatusBadRequest, files |-> <<>>, length |-> -1]
             ELSE IF walkErr
             THEN [status |-> StatusInternalServerError, files |-> <<>>, length |-> -1]
             ELSE [status |-> StatusOK, files |-> WalkFiles(fullPath), length |-> -1]

\* The path the handler resolved for the request now held in req.
ResolvedPath == Join(absPath, QueryUnescape(req.path))

NoReq == [endpoint |-> "none", path |-> <<>>]

ServeDownload ==
    /\ req.endpoint = "download"
    /\ srvResp = NoResp
    /\ srvResp' = DownloadHandler(req.path)
    /\ UNCHANGED <<req, resumeFile, ledVars, batchVars>>

ServeList ==
    /\ req.endpoint = "list"
    /\ srvResp = NoResp
    /\ \E walkErr \in BOOLEAN : srvResp' = ListHandler(req.path, walkErr)
    /\ UNCHANGED <<req, resumeFile, ledVars, batchVars>>

(***************************************************************************)
(* Client: paths.  A relative path is its sequence of segments.            *)
(***************************************************************************)
FileNames == <<"a", "b", "c", "e", "f", "g">>

\* The i-th path of a listing: "a", "d/b", "c", "d/e", ...
PathOf(i) == IF i % 2 = 1 THEN <<FileNames[i]>> ELSE <<"d", FileNames[i]>>

\* filepath.Dir(filePath): all but the last segment (empty: ".").
Dir(path) == SubSeq(path, 1, Len(path) - 1)

(***************************************************************************)
(* Client: the download-state file (DownloadState, encoding/json)          *)
(***************************************************************************)

\* Two names that are not valid UTF-8 (the bytes 0xFE, 0xFF) and the
\* replacement rune U+FFFD json.Marshal writes for each of them.
InvalidNames == {"xFE", "xFF"}
ReplacementName == "uFFFD"

\* The keys of the ledgers considered, in byte order (the order in which
\* json.Marshal writes the keys of a map).
KeyOrder ==
    << <<"a">>, <<"c">>, <<"d", "b">>, <<"d", "e">>, <<"d", "g">>, <<"f">>,
       <<ReplacementName>>, <<"xFE">>, <<"xFF">> >>

\* The keys of the ledgers SpecLedger starts from.
LedgerKeys == {PathOf(1), PathOf(2), <<ReplacementName>>, <<"xFE">>, <<"xFF">>}

ValidUTF8(key) == \A i \in 1..Len(key) : key[i] \notin InvalidNames

\* The JSON encoder's string coercion: invalid bytes become U+FFFD.
ToValidUTF8(key) ==
    [i \in 1..Len(key) |-> IF key[i] \in InvalidNames THEN ReplacementName ELSE key[i]]

EmptyMap == [k \in {} |-> 0]

\* m[k] = v on a Go map.
MapSet(m, k, v) == [x \in (DOMAIN m) \cup {k} |-> IF x = k THEN v ELSE m[x]]

\* DownloadState{Files: make(map[string]int64)}
NewDownloadState == [nil |-> FALSE, files |-> EmptyMap]

\* Contents of the state file.  kind is
\*   "absent"     no such file
\*   "syntax"     bytes that are not JSON (an empty or cut-off file included)
\*   "other"      JSON with no object under "files": [], {}, {"files": 3}, null
\*   "filesNull"  {"files": null}
\*   "object"     {"files": {...}}, the members in file order; a member's value
\*                is an int64 number (int) or anything else (a string, 1.5, ...)
\* len is the file's length in bytes.
FileAbsent == [kind |-> "absent", members |-> <<>>, len |-> 0]
Garbage(n) == [kind |-> "syntax", members |-> <<>>, len |-> n]
FileSyntax == Garbage(0)
FileOther == [kind |-> "other", members |-> <<>>, len |-> 2]
FileFilesNull == [kind |-> "filesNull", members |-> <<>>, len |-> 14]

RECURSIVE Digits(_)
Digits(n) == IF n < 10 THEN 1 ELSE 1 + Digits(n \div 10)

\* Bytes of a key as json.Marshal writes it: a name is one byte, U+FFFD three,
\* an invalid byte the six of the escape \ufffd; segments are joined by '/'.
RECURSIVE KeyLen(_)
KeyLen(key) ==
    IF key = <<>> THEN 0
    ELSE (IF Head(key) \in InvalidNames THEN 6
          ELSE IF Head(key) = ReplacementName THEN 3 ELSE 1)
         + (IF Len(key) > 1 THEN 1 ELSE 0) + KeyLen(Tail(key))

RECURSIVE MembersLen(_)
MembersLen(members) ==
    IF members = <<>> THEN 0
    ELSE Head(members).len + (IF Len(members) > 1 THEN 1 ELSE 0) + MembersLen(Tail(members))

\* {"files":{ members }}
FileObject(members) ==
    [kind |-> "object", members |-> members, len |-> 12 + MembersLen(members)]

\* "key":n
Member(key, n) == [key |-> key, int |-> TRUE, n |-> n, len |-> KeyLen(key) + 3 + Digits(n)]
\* "key":"x"
NonIntMember(key) == [key |-> key, int |-> FALSE, n |-> 0, len |-> KeyLen(key) + 6]

\* json.Unmarshal's object decoding into a map: members are stored in order,
\* a later duplicate key overwriting; a value that is no int64 stores the zero
\* value under its key (the type error is recorded and decoding goes on).
RECURSIVE DecodeMembers(_, _)
DecodeMembers(members, m) ==
    IF members = <<>> THEN m
    ELSE LET e == Head(members)
         IN  DecodeMembers(Tail(members), MapSet(m, e.key, IF e.int THEN e.n ELSE 0))

\* json.Unmarshal(data, &state): a syntax error stores nothing; a "files"
\* member that is no object leaves Files alone, except null, which sets the
\* map to nil; an object is decoded into the existing map.
Unmarshal(data, st) ==
    CASE data.kind = "object" ->
            [nil |-> FALSE,
             files |-> DecodeMembers(data.members, IF st.nil THEN EmptyMap ELSE st.files)]
      [] data.kind = "filesNull" -> [nil |-> TRUE, files |-> EmptyMap]
      [] OTHER -> st

\* loadDownloadState(); readErr: os.ReadFile fails on a file that exists.
loadDownloadState(file, readErr) ==
    IF file.kind = "absent" \/ readErr THEN NewDownloadState
    ELSE Unmarshal(file, NewDownloadState)

\* A map entry as json.Marshal writes it.
Encoded(key, n) == [Member(key, n) EXCEPT !.key = ToValidUTF8(key)]

\* Mutant: entries whose value is zero are left out.
MarshalOmitZero(st) ==
    IF st.nil THEN FileFilesNull
    ELSE LET keys == SelectSeq(KeyOrder,
                               LAMBDA k : k \in DOMAIN st.files /\ st.files[k] # 0)
         IN  FileObject([i \in 1..Len(keys) |-> Encoded(keys[i], st.files[keys[i]])])

\* json.Marshal(state): the keys sorted by their bytes, each written coerced
\* to valid UTF-8; a nil map is written as null.
Marshal(st) ==
    IF st.nil THEN FileFilesNull
    ELSE LET keys == SelectSeq(KeyOrder, LAMBDA k : k \in DOMAIN st.files)
         IN  FileObject([i \in 1..Len(keys) |-> Encoded(keys[i], st.files[keys[i]])])

\* os.WriteFile(resumeFile, data, 0644) is two system calls: an open with
\* O_TRUNC, which empties the file, and a write of data at offset 0, which
\* replaces the file's first bytes.  Over a longer content, written by another
\* call since the truncation, the result is data followed by the rest of it,
\* which is no JSON.
Truncated == Garbage(0)

Overlay(file, data) == IF data.len >= file.len THEN data ELSE Garbage(file.len)

\* The outcomes of the two calls run together:
\*   "ok"       the file holds data
\*   "noopen"   the open fails, the file is as before
\*   "cut"      the write fails after the truncation
WriteOutcomes == {"ok", "noopen", "cut"}

WriteFile(file, data, how) ==
    CASE how = "ok" -> Overlay(Truncated, data)
      [] how = "noopen" -> file
      [] OTHER -> Truncated

\* saveDownloadState(state): the error of WriteFile is dropped.
saveDownloadState(file, st, how) == WriteFile(file, Marshal(st), how)

(***************************************************************************)
(* Client: downloadFile, one step per statement that reads or writes the   *)
(* disk, the state file or the network.                                    *)
(***************************************************************************)
Workers == 1..MaxWorkers
Sizes == 0..MaxSize
Paths == {PathOf(i) : i \in 1..MaxFiles}

NoFile == -1

\* The response of client.Do: err, or a status and resp.ContentLength
\* (-1 when the length is unknown).
NoResponse == [err |-> FALSE, status |-> 0, length |-> -1]
RespStatuses == {200, 206, 404}
Responses ==
    {[err |-> TRUE, status |-> 0, length |-> -1]}
        \cup {[err |-> FALSE, status |-> st, length |-> n] :
                 st \in RespStatuses, n \in {-1} \cup Sizes}

\* Mutant: only server errors are refused.
StatusAcceptedBelow500(status) == status < 500

\* `resp.StatusCode != http.StatusOK` is false
StatusAccepted(status) == status = StatusOK

\* Mutant: no test for a complete local copy.
AlreadyCompleteNever(totalSize, localSize) == FALSE

\* `totalSize > 0 && info.Size() == totalSize`
AlreadyComplete(totalSize, localSize) == totalSize > 0 /\ localSize = totalSize

\* Mutants: only an over-long body counts as a mismatch; no test at all.
SizeMismatchOnlyLonger(totalSize, n) == totalSize > 0 /\ n > totalSize
SizeMismatchNever(totalSize, n) == FALSE

\* `totalSize > 0 && written != totalSize`
SizeMismatch(totalSize, n) == totalSize > 0 /\ n # totalSize

\* Mutant: the call reads the state file again just before it saves.
LedgerReloaded(w) == loadDownloadState(resumeFile, FALSE)

\* No save stands: the state file is not what a call of this batch wrote.
NoSave == [by |-> 0, loaded |-> EmptyMap, path |-> <<>>, n |-> 0, advertised |-> -1]

\* The ledger a call writes its entry into: the `state` it loaded at its start.
LedgerToSave(w) == state[w]

\* Mutant: a receive leaves the task on the channel.
AfterReceivePeek(q) == q

\* The channel after a receive.
AfterReceive(q) == Tail(q)

\* os.MkdirAll(saveDir): saveDir and every directory above it.
AllDirs(saveDir) == {SubSeq(saveDir, 1, k) : k \in 0..Len(saveDir)}

\* Mutant: a call that fails takes its worker out of the loop.
ReturnLeavesLoopOnFailure(w, how) ==
    /\ wpc' = [wpc EXCEPT ![w] = IF how \in {"ok", "skipped"} THEN "range" ELSE "exited"]
    /\ outcome' = [outcome EXCEPT ![w] = how]
    /\ state' = [state EXCEPT ![w] = NewDownloadState]
    /\ resp' = [resp EXCEPT ![w] = NoResponse]

\* downloadFile returns to the loop of its worker, which has nothing to test:
\* the locals die, the history of the call stays.
Return(w, how) ==
    /\ wpc' = [wpc EXCEPT ![w] = "range"]
    /\ outcome' = [outcome EXCEPT ![w] = how]
    /\ state' = [state EXCEPT ![w] = NewDownloadState]
    /\ resp' = [resp EXCEPT ![w] = NoResponse]

\* `for file := range tasks`: receive the next task and call downloadFile.
Receive(w) ==
    /\ ~panicked
    /\ wpc[w] = "range"
    /\ tasks # <<>>
    /\ filePath' = [filePath EXCEPT ![w] = Head(tasks)]
    /\ tasks' = AfterReceive(tasks)
    /\ invocations' = [invocations EXCEPT ![Head(tasks)] = @ + 1]
    /\ wpc' = [wpc EXCEPT ![w] = "load"]
    /\ outcome' = [outcome EXCEPT ![w] = "running"]
    /\ effects' = [effects EXCEPT ![w] = {}]
    /\ written' = [written EXCEPT ![w] = 0]
    /\ UNCHANGED <<mainPc, concurrency, resultFiles, spawned, enqueued, closed, wg,
                   state, resp, diskVars, saved, lastSaved, panicked,
                   resumeFile, srvVars, ledVars>>

\* Mutant: the loop ends as soon as the channel is empty.
RangeEndsWhenEmpty(q, isClosed) == q = <<>>

\* `range tasks` ends: the channel is closed and nothing is left on it.
RangeEnds(q, isClosed) == q = <<>> /\ isClosed

\* `for file := range tasks` on a closed, drained channel; then wg.Done().
Exit(w) ==
    /\ ~panicked
    /\ wpc[w] = "range"
    /\ RangeEnds(tasks, closed)
    /\ wpc' = [wpc EXCEPT ![w] = "exited"]
    /\ wg' = wg - 1
    /\ UNCHANGED <<mainPc, concurrency, resultFiles, spawned, enqueued, tasks, closed,
                   filePath, state, resp, written, diskVars, histVars,
                   resumeFile, srvVars, ledVars>>

\* state := loadDownloadState()
Load(w) ==
    /\ ~panicked
    /\ wpc[w] = "load"
    /\ \E readErr \in BOOLEAN :
          /\ readErr => resumeFile.kind # "absent"
          /\ state' = [state EXCEPT ![w] = loadDownloadState(resumeFile, readErr)]
    /\ wpc' = [wpc EXCEPT ![w] = "do"]
    /\ UNCHANGED <<mainVars, filePath, resp, written, diskVars, histVars,
                   resumeFile, srvVars, ledVars>>

\* http.NewRequest and client.Do(req): an error returns at once.
Do(w) ==
    /\ ~panicked
    /\ wpc[w] = "do"
    /\ \E r \in Responses :
          IF r.err
          THEN /\ Return(w, "geterr")
          ELSE /\ resp' = [resp EXCEPT ![w] = r]
               /\ wpc' = [wpc EXCEPT ![w] = "status"]
               /\ UNCHANGED <<state, outcome>>
    /\ UNCHANGED <<mainVars, filePath, written, diskVars,
                   effects, invocations, saved, lastSaved, panicked,
                   resumeFile, srvVars, ledVars>>

\* client.Do(req) on an http.Client with no Timeout and a request with no
\* context: a server that never answers keeps the call waiting for ever.
Hang(w) ==
    /\ ~panicked
    /\ wpc[w] = "do"
    /\ wpc' = [wpc EXCEPT ![w] = "hung"]
    /\ UNCHANGED <<mainVars, filePath, state, resp, written, diskVars, histVars,
                   resumeFile, srvVars, ledVars>>

\* `if resp.StatusCode != http.StatusOK { return }`; totalSize is resp.length.
CheckStatus(w) ==
    /\ ~panicked
    /\ wpc[w] = "status"
    /\ IF StatusAccepted(resp[w].status)
       THEN /\ wpc' = [wpc EXCEPT ![w] = "mkdir"]
            /\ UNCHANGED <<state, resp, outcome>>
       ELSE Return(w, "status")
    /\ UNCHANGED <<mainVars, filePath, written, diskVars,
                   effects, invocations, saved, lastSaved, panicked,
                   resumeFile, srvVars, ledVars>>

\* os.MkdirAll(filepath.Join(savePath, filepath.Dir(filePath)), 0755)
Mkdir(w) ==
    /\ ~panicked
    /\ wpc[w] = "mkdir"
    /\ \E mkdirErr \in BOOLEAN :
          IF mkdirErr
          THEN /\ Return(w, "mkdirerr")
               /\ UNCHANGED <<localDirs, effects>>
          ELSE /\ localDirs' = localDirs \cup AllDirs(Dir(filePath[w]))
               /\ effects' = [effects EXCEPT ![w] = @ \cup {"mkdir"}]
               /\ wpc' = [wpc EXCEPT ![w] = "stat"]
               /\ UNCHANGED <<state, resp, outcome>>
    /\ UNCHANGED <<mainVars, filePath, written, localFiles,
                   invocations, saved, lastSaved, panicked,
                   resumeFile, srvVars, ledVars>>

\* os.Stat(fileName) and the test for a complete local copy.
Stat(w) ==
    /\ ~panicked
    /\ wpc[w] = "stat"
    /\ IF /\ localFiles[filePath[w]] # NoFile
          /\ AlreadyComplete(resp[w].length, localFiles[filePath[w]])
       THEN Return(w, "skipped")
       ELSE /\ wpc' = [wpc EXCEPT ![w] = "create"]
            /\ UNCHANGED <<state, resp, outcome>>
    /\ UNCHANGED <<mainVars, filePath, written, diskVars,
                   effects, invocations, saved, lastSaved, panicked,
                   resumeFile, srvVars, ledVars>>

\* Mutant: the file is opened without O_TRUNC, its bytes are kept.
CreatedSizeKeepsBytes(oldSize) == IF oldSize = NoFile THEN 0 ELSE oldSize

\* The size of the file os.Create leaves: O_CREATE|O_TRUNC, always empty.
CreatedSize(oldSize) == 0

\* os.Create(fileName): the file exists and is empty afterwards.  The effect
\* "truncate" records that a file was there before and was emptied.
Create(w) ==
    /\ ~panicked
    /\ wpc[w] = "create"
    /\ \E createErr \in BOOLEAN :
          IF createErr
          THEN /\ Return(w, "createerr")
               /\ UNCHANGED <<localFiles, effects>>
          ELSE /\ localFiles' = [localFiles EXCEPT ![filePath[w]] = CreatedSize(@)]
               /\ effects' = [effects EXCEPT ![w] =
                                 @ \cup {"create"}
                                   \cup (IF localFiles[filePath[w]] # NoFile
                                         THEN {"truncate"} ELSE {})]
               /\ wpc' = [wpc EXCEPT ![w] = "copy"]
               /\ UNCHANGED <<state, resp, outcome>>
    /\ UNCHANGED <<mainVars, filePath, written, localDirs,
                   invocations, saved, lastSaved, panicked,
                   resumeFile, srvVars, ledVars>>

\* written, err := io.Copy(out, resp.Body) and the two tests after it.  A body
\* is never longer than a known Content-Length.
Copy(w) ==
    /\ ~panicked
    /\ wpc[w] = "copy"
    /\ \E n \in Sizes, copyErr \in BOOLEAN :
          /\ resp[w].length >= 0 => n <= resp[w].length
          /\ localFiles' = [localFiles EXCEPT ![filePath[w]] = n]
          /\ written' = [written EXCEPT ![w] = n]
          /\ IF copyErr THEN Return(w, "copyerr")
             ELSE IF SizeMismatch(resp[w].length, n) THEN Return(w, "mismatch")
             ELSE /\ wpc' = [wpc EXCEPT ![w] = "save"]
                  /\ UNCHANGED <<state, resp, outcome>>
    /\ effects' = [effects EXCEPT ![w] = @ \cup {"copy"}]
    /\ UNCHANGED <<mainVars, filePath, localDirs,
                   invocations, saved, lastSaved, panicked,
                   resumeFile, srvVars, ledVars>>

\* The ledger with the call's entry set: state.Files[filePath] = written.
WithEntry(w) ==
    [LedgerToSave(w) EXCEPT !.files = MapSet(@, filePath[w], written[w])]

\* state.Files[filePath] = written, a run-time panic on a nil map, which ends
\* the process; then saveDownloadState as far as the open of os.WriteFile.
\* A failed open is not reported and the call returns as a success.
Save(w) ==
    /\ ~panicked
    /\ wpc[w] = "save"
    /\ IF LedgerToSave(w).nil
       THEN /\ panicked' = TRUE
            /\ UNCHANGED <<wpc, state, resp, outcome, effects, lastSaved, resumeFile>>
       ELSE /\ effects' = [effects EXCEPT ![w] = @ \cup {"save"}]
            /\ UNCHANGED panicked
            /\ \E openErr \in BOOLEAN :
                  IF openErr
                  THEN /\ Return(w, "ok")
                       /\ UNCHANGED <<resumeFile, lastSaved>>
                  ELSE /\ resumeFile' = Truncated
                       /\ lastSaved' = NoSave
                       /\ wpc' = [wpc EXCEPT ![w] = "write"]
                       /\ UNCHANGED <<state, resp, outcome>>
    /\ UNCHANGED <<mainVars, filePath, written, diskVars, invocations, saved,
                   srvVars, ledVars>>

\* The write of os.WriteFile; its error is dropped and downloadFile returns.
Write(w) ==
    /\ ~panicked
    /\ wpc[w] = "write"
    /\ \E writeErr \in BOOLEAN :
          IF writeErr
          THEN UNCHANGED <<resumeFile, saved, lastSaved>>
          ELSE LET data == Marshal(WithEntry(w))
               IN  /\ resumeFile' = Overlay(resumeFile, data)
                   /\ saved' = saved \cup {filePath[w]}
                   /\ lastSaved' =
                         IF resumeFile' = data
                         THEN [by |-> w, loaded |-> state[w].files, path |-> filePath[w],
                               n |-> written[w], advertised |-> resp[w].length]
                         ELSE NoSave
    /\ Return(w, "ok")
    /\ UNCHANGED <<mainVars, filePath, written, diskVars, effects, invocations, panicked,
                   srvVars, ledVars>>

(***************************************************************************)
(* Client: downloadDirectory                                               *)
(***************************************************************************)

\* Mutant: an empty listing is not noticed.
ListingEmptyNever(files) == FALSE

\* `len(result.Files) == 0`
ListingEmpty(files) == Len(files) = 0

\* The list request and the decoding of its answer: any failure returns; a
\* listing of no files reports "empty or missing" and returns.
List ==
    /\ ~panicked
    /\ mainPc = "list"
    /\ \/ /\ mainPc' = "failed"
          /\ UNCHANGED resultFiles
       \/ \E n \in 0..MaxFiles :
             /\ resultFiles' = [i \in 1..n |-> PathOf(i)]
             /\ mainPc' = IF ListingEmpty(resultFiles') THEN "empty" ELSE "spawn"
    /\ UNCHANGED <<concurrency, spawned, enqueued, tasks, closed, wg,
                   workerVars, diskVars, histVars, resumeFile, srvVars, ledVars>>

\* Mutant: the loop may stop before every worker is started.
SpawnLoopOneTurn == spawned < concurrency /\ spawned = 0

\* A loop that tests its bound after the body, so starts one worker at least.
SpawnLoopAtLeastOnce == spawned < concurrency \/ spawned = 0

\* `i < concurrency`
SpawnLoopGoesOn == spawned < concurrency

\* The number of turns of that loop: none when the flag is zero or negative.
WorkersToStart == IF concurrency > 0 THEN concurrency ELSE 0

\* One turn of `for i := 0; i < concurrency; i++ { wg.Add(1); go func() ... }`.
Spawn ==
    /\ ~panicked
    /\ mainPc = "spawn"
    /\ SpawnLoopGoesOn
    /\ spawned' = spawned + 1
    /\ wg' = wg + 1
    /\ wpc' = [wpc EXCEPT ![spawned + 1] = "range"]
    /\ UNCHANGED <<mainPc, concurrency, resultFiles, enqueued, tasks, closed,
                   filePath, state, resp, written, diskVars, histVars,
                   resumeFile, srvVars, ledVars>>

\* The loop ends.
SpawnDone ==
    /\ ~panicked
    /\ mainPc = "spawn"
    /\ ~SpawnLoopGoesOn
    /\ mainPc' = "enqueue"
    /\ UNCHANGED <<concurrency, resultFiles, spawned, enqueued, tasks, closed, wg,
                   workerVars, diskVars, histVars, resumeFile, srvVars, ledVars>>

\* Mutant: a channel that buffers one task.
CapacityOne == IF Len(resultFiles) > 1 THEN 1 ELSE Len(resultFiles)

\* make(chan FileInfo, len(result.Files)): the channel's capacity.
Capacity == Len(resultFiles)

\* `tasks <- file`: the send blocks while the channel is full.
Enqueue ==
    /\ ~panicked
    /\ mainPc = "enqueue"
    /\ enqueued < Len(resultFiles)
    /\ Len(tasks) < Capacity
    /\ tasks' = Append(tasks, resultFiles[enqueued + 1])
    /\ enqueued' = enqueued + 1
    /\ UNCHANGED <<mainPc, concurrency, resultFiles, spawned, closed, wg,
                   workerVars, diskVars, histVars, resumeFile, srvVars, ledVars>>

\* close(tasks)
Close ==
    /\ ~panicked
    /\ mainPc = "enqueue"
    /\ enqueued = Len(resultFiles)
    /\ closed' = TRUE
    /\ mainPc' = "wait"
    /\ UNCHANGED <<concurrency, resultFiles, spawned, enqueued, tasks, wg,
                   workerVars, diskVars, histVars, resumeFile, srvVars, ledVars>>

\* Mutant: the wait does not block.
WaitReturnsAtOnce == TRUE

\* wg.Wait() blocks until the counter is zero.
WaitReturns == wg = 0

\* wg.Wait() returns and the completion line is printed.
Wait ==
    /\ ~panicked
    /\ mainPc = "wait"
    /\ WaitReturns
    /\ mainPc' = "done"
    /\ UNCHANGED <<concurrency, resultFiles, spawned, enqueued, tasks, closed, wg,
                   workerVars, diskVars, histVars, resumeFile, srvVars, ledVars>>

\* The values the batch's variables hold in the other two specifications.
BatchIdle ==
    /\ mainPc = "list"
    /\ concurrency = 0
    /\ resultFiles = <<>>
    /\ spawned = 0
    /\ enqueued = 0
    /\ tasks = <<>>
    /\ closed = FALSE
    /\ wg = 0
    /\ wpc = [w \in Workers |-> "unborn"]
    /\ filePath = [w \in Workers |-> <<>>]
    /\ state = [w \in Workers |-> NewDownloadState]
    /\ resp = [w \in Workers |-> NoResponse]
    /\ written = [w \in Workers |-> 0]
    /\ localFiles = [p \in Paths |-> NoFile]
    /\ localDirs = {<<>>}
    /\ outcome = [w \in Workers |-> "none"]
    /\ effects = [w \in Workers |-> {}]
    /\ invocations = [p \in Paths |-> 0]
    /\ saved = {}
    /\ lastSaved = NoSave
    /\ panicked = FALSE

\* What the state file may hold when a batch starts.
BatchInitialFiles ==
    {FileAbsent, FileFilesNull, FileObject(<<Member(PathOf(1), 1)>>)}

Init ==
    /\ mainPc = "list"
    /\ concurrency \in (-1)..MaxWorkers    \* an int flag, taken as given
    /\ resultFiles = <<>>
    /\ spawned = 0
    /\ enqueued = 0
    /\ tasks = <<>>
    /\ closed = FALSE
    /\ wg = 0
    /\ wpc = [w \in Workers |-> "unborn"]
    /\ filePath = [w \in Workers |-> <<>>]
    /\ state = [w \in Workers |-> NewDownloadState]
    /\ resp = [w \in Workers |-> NoResponse]
    /\ written = [w \in Workers |-> 0]
    /\ localFiles \in [Paths -> {NoFile} \cup Sizes]
    /\ localDirs = {<<>>} \cup {Dir(p) : p \in {q \in Paths : localFiles[q] # NoFile}}
    /\ outcome = [w \in Workers |-> "none"]
    /\ effects = [w \in Workers |-> {}]
    /\ invocations = [p \in Paths |-> 0]
    /\ saved = {}
    /\ lastSaved = NoSave
    /\ panicked = FALSE
    /\ resumeFile \in BatchInitialFiles
    /\ req = NoReq
    /\ srvResp = NoResp
    /\ memState = NewDownloadState
    /\ ledgerPhase = "init"
    /\ savedState = NewDownloadState
    /\ ioOk = TRUE

Next ==
    \/ List
    \/ Spawn
    \/ SpawnDone
    \/ Enqueue
    \/ Close
    \/ Wait
    \/ \E w \in Workers :
          \/ Receive(w)
          \/ Exit(w)
          \/ Load(w)
          \/ Do(w)
          \/ Hang(w)
          \/ CheckStatus(w)
          \/ Mkdir(w)
          \/ Stat(w)
          \/ Create(w)
          \/ Copy(w)
          \/ Save(w)
          \/ Write(w)

Spec == Init /\ [][Next]_vars

(***************************************************************************)
(* SpecFair: the batch under the Go scheduler, which lets every goroutine  *)
(* that can run take its next step.  A goroutine that waits (on the        *)
(* channel, on the WaitGroup, on a server that never answers) takes none:  *)
(* the list request is under no fairness, and a worker's GET either        *)
(* answers (Do) or is one that never will (Hang).                          *)
(***************************************************************************)
WorkerStep(w) ==
    \/ Receive(w)
    \/ Exit(w)
    \/ Load(w)
    \/ Do(w)
    \/ CheckStatus(w)
    \/ Mkdir(w)
    \/ Stat(w)
    \/ Create(w)
    \/ Copy(w)
    \/ Save(w)
    \/ Write(w)

MainStep == Spawn \/ SpawnDone \/ Enqueue \/ Close \/ Wait

Fairness ==
    /\ WF_vars(MainStep)
    /\ \A w \in Workers : WF_vars(WorkerStep(w))

\* The batches SpecFair follows start with an empty save directory or with a
\* complete copy of the first file in it, and with no state file or with one
\* that holds {"files": null}.
InitFair ==
    /\ Init
    /\ localFiles \in {[p \in Paths |-> NoFile],
                        [p \in Paths |-> IF p = PathOf(1) THEN MaxSize ELSE NoFile]}
    /\ resumeFile \in {FileAbsent, FileFilesNull}

SpecFair == InitFair /\ [][Next]_vars /\ Fairness

(***************************************************************************)
(* SpecRepeat: the download command, `downloadFile(args[0])`, run again    *)
(* and again for one path against the server above, whose disk does not    *)
(* change, so that every request that gets through is answered alike.  On  *)
(* the client the path is PathOf(1); nothing else touches the save         *)
(* directory or the state file.                                            *)
(***************************************************************************)

\* The paths asked for: a file of one byte, a directory, a file of two bytes
\* (longer than any body copied here), a name that does not exist.
RepeatRequests == { <<"x">>, <<"y">>, <<"y", "/", "x">>, <<"x", "x">> }

\* What the /download handler answers to the request.
Served == DownloadHandler(req.path)

\* The command is run once more: a new call of downloadFile for the path.
Again(w) ==
    /\ ~panicked
    /\ wpc[w] = "range"
    /\ invocations[filePath[w]] < MaxCalls
    /\ invocations' = [invocations EXCEPT ![filePath[w]] = @ + 1]
    /\ wpc' = [wpc EXCEPT ![w] = "load"]
    /\ outcome' = [outcome EXCEPT ![w] = "running"]
    /\ effects' = [effects EXCEPT ![w] = {}]
    /\ written' = [written EXCEPT ![w] = 0]
    /\ UNCHANGED <<mainVars, filePath, state, resp, diskVars, saved, lastSaved, panicked,
                   resumeFile, srvVars, ledVars>>

\* client.Do(req) against the server: a transport error, or the handler's
\* answer with its status and Content-Length.
DoServed(w) ==
    /\ ~panicked
    /\ wpc[w] = "do"
    /\ \E transportErr \in BOOLEAN :
          IF transportErr
          THEN /\ Return(w, "geterr")
               /\ UNCHANGED srvResp
          ELSE /\ srvResp' = Served
               /\ resp' = [resp EXCEPT ![w] = [err |-> FALSE,
                                               status |-> Served.status,
                                               length |-> Served.length]]
               /\ wpc' = [wpc EXCEPT ![w] = "status"]
               /\ UNCHANGED <<state, outcome>>
    /\ UNCHANGED <<mainVars, filePath, written, diskVars,
                   effects, invocations, saved, lastSaved, panicked,
                   resumeFile, req, ledVars>>

InitRepeat ==
    /\ req \in {[endpoint |-> "download", path |-> p] : p \in RepeatRequests}
    /\ srvResp = NoResp
    /\ resumeFile \in BatchInitialFiles
    /\ memState = NewDownloadState
    /\ ledgerPhase = "init"
    /\ savedState = NewDownloadState
    /\ ioOk = TRUE
    /\ mainPc = "list"
    /\ concurrency = 0
    /\ resultFiles = <<>>
    /\ spawned = 0
    /\ enqueued = 0
    /\ tasks = <<>>
    /\ closed = FALSE
    /\ wg = 0
    /\ wpc = [w \in Workers |-> IF w = 1 THEN "range" ELSE "unborn"]
    /\ filePath = [w \in Workers |-> IF w = 1 THEN PathOf(1) ELSE <<>>]
    /\ state = [w \in Workers |-> NewDownloadState]
    /\ resp = [w \in Workers |-> NoResponse]
    /\ written = [w \in Workers |-> 0]
    /\ \E n \in {NoFile} \cup Sizes :
          localFiles = [p \in Paths |-> IF p = PathOf(1) THEN n ELSE NoFile]
    /\ localDirs = {<<>>}
    /\ outcome = [w \in Workers |-> "none"]
    /\ effects = [w \in Workers |-> {}]
    /\ invocations = [p \in Paths |-> 0]
    /\ saved = {}
    /\ lastSaved = NoSave
    /\ panicked = FALSE

NextRepeat ==
    \/ Again(1)
    \/ Load(1)
    \/ DoServed(1)
    \/ CheckStatus(1)
    \/ Mkdir(1)
    \/ Stat(1)
    \/ Create(1)
    \/ Copy(1)
    \/ Save(1)
    \/ Write(1)

SpecRepeat == InitRepeat /\ [][NextRepeat]_vars

(***************************************************************************)
(* SpecLedger: one state file, saved and loaded with no other writer.      *)
(*   init --save--> saved --load--> reloaded                               *)
(*   init --load--> cold --record (state.Files[p] = n; save)--> recorded   *)
(*                                                      or --> panic       *)
(***************************************************************************)
Ledgers == UNION {[K -> Sizes] : K \in SUBSET LedgerKeys}

\* What the state file may hold before the program runs.
InitialFiles ==
    { FileAbsent, FileSyntax, FileOther, FileFilesNull,
      FileObject(<<>>),
      FileObject(<<Member(PathOf(1), 1)>>),
      FileObject(<<NonIntMember(PathOf(1))>>),
      FileObject(<<NonIntMember(PathOf(1)), Member(PathOf(2), 1)>>),
      FileObject(<<Member(PathOf(1), 1), Member(PathOf(1), 0)>>) }

LedgerSave ==
    /\ ledgerPhase = "init"
    /\ \E how \in WriteOutcomes :
          /\ resumeFile' = saveDownloadState(resumeFile, memState, how)
          /\ ioOk' = (how = "ok")
    /\ savedState' = memState
    /\ ledgerPhase' = "saved"
    /\ UNCHANGED <<memState, srvVars, batchVars>>

LedgerLoad ==
    /\ ledgerPhase \in {"init", "saved"}
    /\ \E readErr \in BOOLEAN :
          /\ readErr => resumeFile.kind # "absent"
          /\ memState' = loadDownloadState(resumeFile, readErr)
          /\ ioOk' = IF ledgerPhase = "saved" THEN ioOk /\ ~readErr ELSE ~readErr
    /\ ledgerPhase' = IF ledgerPhase = "saved" THEN "reloaded" ELSE "cold"
    /\ UNCHANGED <<resumeFile, savedState, srvVars, batchVars>>

\* downloadFile's last two statements on the state just loaded:
\* state.Files[filePath] = written (a write to a nil map panics), then save.
LedgerRecord ==
    /\ ledgerPhase = "cold"
    /\ \E n \in Sizes, how \in WriteOutcomes :
          IF memState.nil
          THEN /\ ledgerPhase' = "panic"
               /\ UNCHANGED <<memState, resumeFile, savedState, ioOk>>
          ELSE /\ memState' = [memState EXCEPT !.files = MapSet(@, PathOf(2), n)]
               /\ resumeFile' = saveDownloadState(resumeFile, memState', how)
               /\ savedState' = memState'
               /\ ioOk' = (how = "ok")
               /\ ledgerPhase' = "recorded"
    /\ UNCHANGED <<srvVars, batchVars>>

InitLedger ==
    /\ memState \in {[nil |-> FALSE, files |-> f] : f \in Ledgers}
    /\ resumeFile \in InitialFiles
    /\ ledgerPhase = "init"
    /\ savedState = NewDownloadState
    /\ ioOk = TRUE
    /\ req = NoReq
    /\ srvResp = NoResp
    /\ BatchIdle

NextLedger == LedgerSave \/ LedgerLoad \/ LedgerRecord

SpecLedger == InitLedger /\ [][NextLedger]_vars

(***************************************************************************)
(* SpecServer: one request to one of the two handlers.                     *)
(***************************************************************************)
InitServer ==
    /\ req \in {[endpoint |-> e, path |-> p] : e \in {"download", "list"}, p \in ReqPaths}
    /\ srvResp = NoResp
    /\ resumeFile = FileAbsent
    /\ memState = NewDownloadState
    /\ ledgerPhase = "init"
    /\ savedState = NewDownloadState
    /\ ioOk = TRUE
    /\ BatchIdle

NextServer == ServeDownload \/ ServeList

SpecServer == InitServer /\ [][NextServer]_vars

(***************************************************************************)
(* Claims about the server                                                 *)
(***************************************************************************)

\* C2: every /download or /list request whose resolved path (decoded once,
\* joined under the root, cleaned) lies outside the root is answered 403;
\* "outside" is the segment-wise (separator-terminated) test, so under the
\* root /r/x a path resolving to /r/xy or /r/xx/... must be rejected.
C2_OutsideRootForbidden ==
    (srvResp # NoResp /\ ~QueryUnescapeErr(req.path) /\ ~InsideRoot(ResolvedPath))
        => srvResp.status = StatusForbidden

\* C15: a request whose path decodes is answered by the first test it fails,
\* in the order containment (403 for a resolved path outside the root),
\* existence (404), kind (400 for /list on a non-directory and for /download
\* on a directory); 200 is answered only for a path inside the root that
\* exists and is of the kind the endpoint serves.
C15_KindServed(fullPath) ==
    IF req.endpoint = "list" THEN StatInfo(fullPath).dir ELSE ~StatInfo(fullPath).dir

C15_ResponseDecision ==
    (srvResp # NoResp /\ ~QueryUnescapeErr(req.path)) =>
        /\ srvResp.status = StatusOK =>
              /\ InsideRoot(ResolvedPath)
              /\ StatExists(ResolvedPath)
              /\ C15_KindServed(ResolvedPath)
        /\ ~InsideRoot(ResolvedPath) => srvResp.status = StatusForbidden
        /\ (InsideRoot(ResolvedPath) /\ ~StatExists(ResolvedPath)) =>
              srvResp.status = StatusNotFound
        /\ (InsideRoot(ResolvedPath) /\ StatExists(ResolvedPath)
                /\ ~C15_KindServed(ResolvedPath)) =>
              srvResp.status = StatusBadRequest

\* The entries of the server's disk that are no directories and lie in the
\* subtree of fullPath.
C16_FilesBelow(fullPath) ==
    {i \in 1..Len(ServerDisk) :
        ~ServerDisk[i].dir /\ InSubtree(fullPath, ServerDisk[i].name)}

\* C16: a /list answered 200 holds exactly one record for each non-directory
\* in the subtree of the directory listed and nothing else (no record for a
\* directory): the record's path, joined under the root, names the entry, and
\* its size is the entry's.  Every other answer, the internal error of a
\* failed walk included, holds no record.
C16_ListingExact ==
    (req.endpoint = "list" /\ srvResp # NoResp) =>
        IF srvResp.status = StatusOK
        THEN /\ Len(srvResp.files) = Cardinality(C16_FilesBelow(ResolvedPath))
             /\ \A i \in C16_FilesBelow(ResolvedPath) :
                   \E k \in 1..Len(srvResp.files) :
                       /\ Join(absPath, srvResp.files[k].path) = ServerDisk[i].name
                       /\ srvResp.files[k].size = ServerDisk[i].size
        ELSE srvResp.files = <<>>

\* /list/y under the root /r/x: the one file below /r/x/y, named "y/x" (not
\* "x"), and no record for the directories /r/x/y and /r/x/y/y.
C16_Witness ==
    /\ req.endpoint = "list"
    /\ ResolvedPath = <<"/", "r", "/", "x", "/", "y">>
    /\ srvResp.status = StatusOK
    /\ srvResp.files = << [path |-> <<"y", "/", "x">>, size |-> 2] >>

(***************************************************************************)
(* Claims about the state file                                             *)
(***************************************************************************)
ValidKeys(st) == \A k \in DOMAIN st.files : ValidUTF8(k)

Malformed(file, readOk) ==
    \/ file.kind \in {"absent", "syntax", "other", "filesNull"}
    \/ ~readOk
    \/ \E i \in 1..Len(file.members) : ~file.members[i].int

\* C10: from every malformed state file loadDownloadState returns an empty,
\* usable ledger, and recording an entry in the ledger just loaded never
\* ends in a fatal error.
C10_LoadNeverFails ==
    /\ ledgerPhase # "panic"
    /\ (ledgerPhase = "cold" /\ Malformed(resumeFile, ioOk)) => memState = NewDownloadState

(***************************************************************************)
(* Claims about the batch download                                         *)
(***************************************************************************)
RECURSIVE Count(_, _)
Count(q, x) ==
    IF q = <<>> THEN 0 ELSE (IF Head(q) = x THEN 1 ELSE 0) + Count(Tail(q), x)

Listed == {resultFiles[i] : i \in 1..Len(resultFiles)}

\* The ledger the state file holds now.
LedgerOnDisk == loadDownloadState(resumeFile, FALSE).files

\* C1: each listed file is, at every moment, in exactly one place: not yet
\* sent, waiting on the channel, or handed to exactly one downloadFile call
\* (so no task is received twice and none is dropped); and with one worker or
\* more, when completion is reported downloadFile has been called exactly once
\* for each listed file and for nothing else.
C1_ExactlyOnce ==
    /\ \A i \in 1..Len(resultFiles) :
          (IF i > enqueued THEN 1 ELSE 0) + Count(tasks, resultFiles[i])
              + invocations[resultFiles[i]] = 1
    /\ \A p \in Paths \ Listed : invocations[p] = 0
    /\ (concurrency >= 1 /\ mainPc = "done") =>
          \A p \in Listed : invocations[p] = 1

C1_Witness ==
    /\ mainPc = "done"
    /\ concurrency >= 2
    /\ Len(resultFiles) >= 2
    /\ \A p \in Listed : invocations[p] = 1
    /\ filePath[1] # <<>> /\ filePath[2] # <<>> /\ filePath[1] # filePath[2]

\* C3: with one worker or more, when completion is reported every worker has
\* terminated, the channel is closed and empty, and no downloadFile call is
\* still running.
C3_CompletionAfterWorkers ==
    (concurrency >= 1 /\ mainPc = "done") =>
        /\ \A w \in 1..concurrency : wpc[w] = "exited" /\ outcome[w] # "running"
        /\ tasks = <<>>
        /\ closed

C3_Witness ==
    /\ mainPc = "done"
    /\ concurrency >= 2
    /\ \A w \in 1..concurrency : wpc[w] = "exited" /\ outcome[w] \notin {"none", "running"}

\* C4: a call whose byte count differs from a known expected size (a positive
\* Content-Length) never reaches the ledger update; it ends as a size
\* mismatch, having written nothing to the state file and leaving the file it
\* wrote on disk with the bytes written.
C4_MismatchKeepsFileSkipsLedger ==
    \A w \in Workers :
        /\ wpc[w] = "save" =>
              ~(resp[w].length > 0 /\ written[w] # resp[w].length)
        /\ outcome[w] = "mismatch" =>
              /\ "save" \notin effects[w]
              /\ localFiles[filePath[w]] # NoFile
              /\ localFiles[filePath[w]] = written[w]

C4_Witness ==
    \E w \in Workers :
        /\ outcome[w] = "mismatch"
        /\ wpc[w] = "range"
        /\ localFiles[filePath[w]] = written[w]
        /\ "copy" \in effects[w]

\* C5: a call that finds the local file present with exactly the expected
\* size (a positive Content-Length) never goes on to create the file; it ends
\* as skipped, having neither truncated nor written the file nor written the
\* state file.
C5_SkipLeavesFileAndLedger ==
    \A w \in Workers :
        /\ wpc[w] = "create" =>
              ~(/\ localFiles[filePath[w]] # NoFile
                /\ resp[w].length > 0
                /\ localFiles[filePath[w]] = resp[w].length)
        /\ outcome[w] = "skipped" =>
              /\ effects[w] \cap {"create", "copy", "save"} = {}
              /\ localFiles[filePath[w]] # NoFile

C5_Witness ==
    \E w \in Workers :
        /\ outcome[w] = "skipped"
        /\ wpc[w] = "range"
        /\ localFiles[filePath[w]] > 0
        /\ effects[w] = {"mkdir"}

\* C6: a call whose GET was answered with a status outside 200..299 goes no
\* further than the status test: it never reaches MkdirAll or anything after
\* it, and it ends having created no directory, created or written no file
\* and not written the state file.
C6_BadStatusNoLocalEffect ==
    \A w \in Workers :
        /\ wpc[w] \in {"mkdir", "stat", "create", "copy", "save"} =>
              resp[w].status \in 200..299
        /\ outcome[w] = "status" => effects[w] = {}

C6_Witness ==
    \E w \in Workers :
        /\ outcome[w] = "status"
        /\ wpc[w] = "range"
        /\ effects[w] = {}
        /\ invocations[filePath[w]] = 1

\* C7 (as stated): whenever a call has written its entry, the value written
\* equals the size the server advertised in that response.
C7_EntryEqualsAdvertised ==
    lastSaved.by # 0 => lastSaved.n = lastSaved.advertised

\* C7 (amended): a call writes its entry only after its copy has ended
\* without error, and the value is the number of bytes copied, which is the
\* size of the local file; it equals the advertised size whenever the
\* response advertised a positive one (with no positive Content-Length the
\* entry is written unverified).
C7_EntryIsBytesWritten ==
    /\ \A w \in Workers :
          wpc[w] = "save" =>
              /\ {"create", "copy"} \subseteq effects[w]
              /\ localFiles[filePath[w]] = written[w]
    /\ lastSaved.by # 0 =>
          /\ lastSaved.path \in DOMAIN LedgerOnDisk
          /\ LedgerOnDisk[lastSaved.path] = lastSaved.n
          /\ localFiles[lastSaved.path] = lastSaved.n
          /\ lastSaved.advertised > 0 => lastSaved.n = lastSaved.advertised

C7_Witness ==
    /\ lastSaved.by # 0
    /\ lastSaved.advertised > 0
    /\ lastSaved.n = lastSaved.advertised
    /\ LedgerOnDisk[lastSaved.path] = lastSaved.n

InFlight(w) == wpc[w] \notin {"unborn", "range", "exited"}

\* The ways a downloadFile call fails: transport error, status other than
\* 200, MkdirAll or Create failing, copy error, size mismatch.
Failures == {"geterr", "status", "mkdirerr", "createerr", "copyerr", "mismatch"}

\* C11: the step in which a downloadFile call fails changes nothing but that
\* call: its worker is back at the head of its loop, ready for the next task,
\* every other worker and the orchestrator are where they were, and the
\* process lives; a worker whose last call failed is in its loop or has left
\* it because the channel was closed and drained.  So with one worker or
\* more, completion, which carries no result, is reported after exactly one
\* call for each listed file whatever the calls' outcomes.
C11_FailureStaysLocal ==
    /\ [][\A w \in Workers :
             (outcome[w] = "running" /\ outcome'[w] \in Failures) =>
                 /\ wpc'[w] = "range"
                 /\ UNCHANGED <<mainVars, invocations, panicked>>
                 /\ \A v \in Workers \ {w} :
                       /\ wpc'[v] = wpc[v]
                       /\ outcome'[v] = outcome[v]
                       /\ filePath'[v] = filePath[v]]_vars
    /\ [](\A w \in Workers : outcome[w] \in Failures => wpc[w] \in {"range", "exited"})
    /\ []((concurrency >= 1 /\ mainPc = "done") => \A p \in Listed : invocations[p] = 1)

\* One worker, two files: the call for the first failed before it created
\* the file, the same worker then transferred the second, and completion
\* was reported.
C11_Witness ==
    /\ mainPc = "done"
    /\ concurrency = 1
    /\ Len(resultFiles) = 2
    /\ localFiles[PathOf(1)] = NoFile
    /\ filePath[1] = PathOf(2)
    /\ outcome[1] = "ok"
    /\ \A p \in Listed : invocations[p] = 1

\* C12: a worker whose GET never answers stays in that call for ever (no
\* timeout, no cancellation: no step takes it out), and while it does the
\* orchestrator waits and never reports completion.  With two workers or
\* more, under fair scheduling the others go on: unless one of them stops in
\* a call of its own that never returns, every listed file is sent and
\* received, every call of the others returns and they terminate.
C12_Hung(w) == wpc[w] = "hung"

C12_OthersDone(w) ==
    /\ enqueued = Len(resultFiles)
    /\ tasks = <<>>
    /\ closed
    /\ \A v \in (1..concurrency) \ {w} : wpc[v] = "exited"
    /\ \A p \in Listed : invocations[p] = 1

C12_OtherNeverReturns(w) ==
    panicked \/ \E v \in Workers \ {w} : C12_Hung(v)

C12_HangStallsOneWorker ==
    /\ [](\A w \in Workers : C12_Hung(w) => mainPc \in {"enqueue", "wait"})
    /\ [][\A w \in Workers : C12_Hung(w) => C12_Hung(w)' /\ mainPc' # "done"]_vars
    /\ \A w \in Workers :
          (C12_Hung(w) /\ concurrency >= 2)
              ~> (C12_OthersDone(w) \/ C12_OtherNeverReturns(w))

C12_Witness ==
    /\ concurrency >= 2
    /\ Len(resultFiles) >= 2
    /\ C12_Hung(1)
    /\ C12_OthersDone(1)
    /\ mainPc = "wait"
    /\ ~panicked

\* C13: the workers started are those numbered up to the loop's count, never
\* more than C and exactly C once the loop has ended (none for a C of zero
\* or less, where the loop has no turn), so at most C calls are
\* in flight; a worker starts a call only from the head of its loop, that is
\* after its previous call has returned, and leaves the loop only from its
\* head, on a channel that is closed and empty.
C13_Started == {w \in Workers : wpc[w] # "unborn"}

C13_WorkerPool ==
    /\ [](/\ C13_Started = 1..spawned
          /\ spawned <= WorkersToStart
          /\ mainPc \in {"enqueue", "wait", "done"} => spawned = WorkersToStart
          /\ Cardinality({w \in Workers : InFlight(w)}) <= WorkersToStart
          /\ \A w \in Workers : wpc[w] = "exited" => (tasks = <<>> /\ closed))
    /\ [][\A w \in Workers :
             /\ (wpc'[w] = "load" /\ wpc[w] # "load") => wpc[w] = "range"
             /\ (wpc'[w] = "exited" /\ wpc[w] # "exited") =>
                   (wpc[w] = "range" /\ tasks = <<>> /\ closed)
             /\ (InFlight(w) /\ InFlight(w)') => filePath'[w] = filePath[w]]_vars

\* C = 1 of two possible workers: one call in flight, the second worker
\* never started, a task waiting on the channel.
C13_Witness ==
    /\ concurrency = 1
    /\ mainPc \in {"enqueue", "wait"}
    /\ InFlight(1)
    /\ wpc[2] = "unborn"
    /\ tasks # <<>>

\* C14: only a listing with files in it goes past the test of its length.  A
\* listing of none ends the call at "empty or missing": no worker was
\* started, nothing was sent on the channel, downloadFile was never called,
\* and the step that ends there leaves the state file and the save directory
\* as they were.
C14_EmptyListingStops ==
    /\ [](resultFiles = <<>> => mainPc \in {"list", "empty", "failed"})
    /\ [](mainPc = "empty" =>
             /\ resultFiles = <<>>
             /\ spawned = 0 /\ wg = 0
             /\ enqueued = 0 /\ tasks = <<>> /\ ~closed
             /\ \A w \in Workers : wpc[w] = "unborn" /\ effects[w] = {}
             /\ \A p \in Paths : invocations[p] = 0
             /\ saved = {})
    /\ [][mainPc' = "empty" => UNCHANGED <<resumeFile, localFiles, localDirs>>]_vars

C14_Witness ==
    /\ mainPc = "empty"
    /\ concurrency >= 1
    /\ resumeFile.kind = "object"
    /\ \E p \in Paths : localFiles[p] # NoFile

\* C17: a call that does not skip goes from the size test to os.Create and
\* nowhere else; the file it is about to copy into is empty, and when the
\* copy has ended the file holds the bytes this call copied and nothing of
\* what was there before.  A file's size changes only in a Create, to zero,
\* or in a Copy, to the count copied; and a call that ended well has created
\* and copied (skipping is the only success that leaves the file alone).
C17_NoPartialResume ==
    /\ [](\A w \in Workers :
             /\ wpc[w] = "copy" => localFiles[filePath[w]] = 0
             /\ (wpc[w] \in {"save", "write"} \/ outcome[w] \in {"copyerr", "mismatch", "ok"})
                   => localFiles[filePath[w]] = written[w]
             /\ outcome[w] = "ok" => {"create", "copy"} \subseteq effects[w])
    /\ [][\A w \in Workers :
             (wpc[w] = "stat" /\ wpc'[w] # "stat") =>
                 IF /\ localFiles[filePath[w]] # NoFile
                    /\ resp[w].length > 0
                    /\ localFiles[filePath[w]] = resp[w].length
                 THEN outcome'[w] = "skipped" /\ wpc'[w] = "range"
                 ELSE wpc'[w] = "create"]_vars
    /\ [][\A p \in Paths :
             localFiles'[p] # localFiles[p] =>
                 \E w \in Workers :
                     /\ filePath[w] = p
                     /\ \/ wpc[w] = "create" /\ localFiles'[p] = 0
                        \/ wpc[w] = "copy" /\ localFiles'[p] = written'[w]]_vars

\* A file that was there with another size than the one advertised was
\* emptied and written anew, and the call recorded the full size.
C17_Witness ==
    \E w \in Workers :
        /\ outcome[w] = "ok"
        /\ wpc[w] = "range"
        /\ "truncate" \in effects[w]
        /\ lastSaved.by = w
        /\ lastSaved.advertised > 0
        /\ localFiles[filePath[w]] = lastSaved.advertised

\* C18 (as stated): no worker receives a task, or starts a transfer, while
\* some listed file has not yet been sent on the channel.
C18_AllEnqueuedBeforeDequeue ==
    (\E p \in Paths : invocations[p] > 0) => enqueued = Len(resultFiles)

\* C18 (amended): the workers are all started before the first task is sent,
\* so a worker may receive a task while later ones are not yet sent; what it
\* receives has been sent, and the channel never holds more than its
\* capacity, the number of files listed.
C18_WorkersStartBeforeTasks ==
    /\ (enqueued > 0 \/ tasks # <<>>) => (spawned = WorkersToStart /\ mainPc # "spawn")
    /\ \A i \in 1..Len(resultFiles) : invocations[resultFiles[i]] > 0 => i <= enqueued
    /\ Len(tasks) <= Capacity
    /\ Capacity = Len(resultFiles)

C18_Witness ==
    /\ mainPc = "enqueue"
    /\ enqueued < Len(resultFiles)
    /\ \E w \in Workers : InFlight(w) /\ invocations[filePath[w]] = 1

\* The worker holds its local file open: from os.Create to the return of
\* downloadFile (`defer out.Close()`).
FileOpen(w) == wpc[w] \in {"copy", "save", "write"}

\* C20: two workers never hold the same local file open for writing at the
\* same time.
C20_DistinctOpenFiles ==
    \A w, v \in Workers :
        (w # v /\ FileOpen(w) /\ FileOpen(v)) => filePath[w] # filePath[v]

C20_Witness ==
    /\ FileOpen(1)
    /\ FileOpen(2)
    /\ wpc[1] = "copy" /\ wpc[2] = "copy"
    /\ filePath[1] # filePath[2]

\* C21: with one worker, so with the calls one after another: the process
\* lives; what a call is about to save holds every other entry of the state
\* file; after a call that ended well the state file holds its path with the
\* count written, and is the ledger the call loaded plus that entry; and a
\* call that failed or skipped has not written the state file.
C21_SequentialLedgerComplete ==
    concurrency = 1 =>
        /\ ~panicked
        /\ wpc[1] = "save" =>
              \A k \in (DOMAIN LedgerOnDisk) \ {filePath[1]} :
                  /\ k \in DOMAIN state[1].files
                  /\ state[1].files[k] = LedgerOnDisk[k]
        /\ (outcome[1] = "ok" /\ wpc[1] = "range") =>
              /\ filePath[1] \in DOMAIN LedgerOnDisk
              /\ LedgerOnDisk[filePath[1]] = written[1]
              /\ lastSaved.by = 1
              /\ LedgerOnDisk = MapSet(lastSaved.loaded, filePath[1], written[1])
        /\ outcome[1] \in Failures \cup {"skipped"} => "save" \notin effects[1]

\* The local file is a complete copy: the server answers 200 with a positive
\* Content-Length and the local file has that size.
C22_CompleteCopy(w) ==
    /\ Served.status = StatusOK
    /\ Served.length > 0
    /\ localFiles[filePath[w]] = Served.length

\* C22: once the local file is a complete copy and the call that made it has
\* returned, no step of any later call changes the local file or the state
\* file: a later call that reaches the size test ends as skipped, none comes
\* to os.Create, io.Copy or the save (a call that ends earlier, on a
\* transport error or a failing MkdirAll, changes nothing either).
C22_CompletedTransferIdempotent ==
    /\ [](\A w \in Workers : wpc[w] \in {"create", "copy"} => ~C22_CompleteCopy(w))
    /\ [][\A w \in Workers :
             (wpc[w] \notin {"unborn", "save", "write"} /\ C22_CompleteCopy(w)) =>
                 /\ UNCHANGED <<localFiles, resumeFile>>
                 /\ wpc'[w] \notin {"create", "copy", "save", "write"}
                 /\ wpc[w] = "stat" => (outcome'[w] = "skipped" /\ wpc'[w] = "range")]_vars

\* A call transferred the file and saved its entry, and the calls after it,
\* up to the last, were skipped: file and entry are as the first left them.
C22_Witness ==
    /\ outcome[1] = "skipped"
    /\ wpc[1] = "range"
    /\ invocations[filePath[1]] = MaxCalls
    /\ lastSaved.by = 1
    /\ lastSaved.path = filePath[1]
    /\ lastSaved.advertised > 0
    /\ localFiles[filePath[1]] = lastSaved.advertised
    /\ LedgerOnDisk[filePath[1]] = lastSaved.advertised

\* C23: with a worker count of zero or less and a listing that is not empty,
\* no worker is ever started and downloadFile is called for no file; the
\* counter stays at zero, so wg.Wait() returns as soon as it is reached; and
\* the batch comes to report completion, every listed file sent on the
\* channel, still there, and the channel closed.
C23_NoWorkers == concurrency <= 0 /\ resultFiles # <<>>

C23_Unserved ==
    /\ mainPc = "done"
    /\ enqueued = Len(resultFiles)
    /\ tasks = resultFiles
    /\ closed
    /\ \A p \in Paths : invocations[p] = 0

C23_CompletionWithoutWorkers ==
    /\ [](C23_NoWorkers =>
            /\ spawned = 0
            /\ wg = 0
            /\ \A w \in Workers : wpc[w] = "unborn" /\ effects[w] = {}
            /\ \A p \in Paths : invocations[p] = 0
            /\ mainPc = "wait" => (enqueued = Len(resultFiles) /\ closed)
            /\ mainPc = "done" => C23_Unserved)
    /\ [][(C23_NoWorkers /\ mainPc = "wait") => mainPc' = "done"]_vars
    /\ (C23_NoWorkers /\ mainPc = "spawn") ~> (C23_NoWorkers /\ C23_Unserved)

\* A negative count and a full listing: completion reported, nothing fetched.
C23_Witness ==
    /\ concurrency < 0
    /\ Len(resultFiles) = MaxFiles
    /\ C23_Unserved

\* C19: with one worker or more and a listing that is not empty, the send on
\* the channel never finds it full, and under fair scheduling, unless some
\* downloadFile call never returns, the channel is closed, every worker
\* terminates and completion is reported.
C19_CallNeverReturns == panicked \/ \E w \in Workers : wpc[w] = "hung"

C19_Terminated ==
    /\ mainPc = "done"
    /\ closed
    /\ tasks = <<>>
    /\ \A w \in 1..concurrency : wpc[w] = "exited"

C19_BatchTerminates ==
    /\ []((mainPc = "enqueue" /\ enqueued < Len(resultFiles)) => Len(tasks) < Capacity)
    /\ (mainPc = "spawn" /\ concurrency >= 1) ~> (C19_Terminated \/ C19_CallNeverReturns)

C19_Witness ==
    /\ C19_Terminated
    /\ concurrency >= 2
    /\ Len(resultFiles) >= 2
    /\ \A w \in 1..concurrency : outcome[w] \notin {"none", "running"}

====
